---- MODULE Spec2Model ----
(***************************************************************************)
(* Discrete-event simulation of a manufacturing line                       *)
(* (ComputerSimulation_Project2.cpp): the Simulation scheduler, the        *)
(* Machine stage and the ManufacturingSystem orchestration.                *)
(*                                                                         *)
(* Simulated time is a double in the source.  Every duration of the        *)
(* program is a multiple of 0.5, so times are modelled exactly as integer  *)
(* numbers of half hours ("ticks"): 2.0 hours is 4 ticks.                  *)
(* Probabilities are multiples of 0.05 and are modelled in twentieths.     *)
(***************************************************************************)
EXTENDS Integers, Sequences, FiniteSets

(***************************************************************************)
(* Bounds of the model.                                                    *)
(***************************************************************************)
\* largest shift duration (hours) typed at the prompt
MaxShiftDuration == 16
\* largest shift count typed at the prompt
MaxShiftCount == 3
\* the uniform draw in [0,1) takes the values 0/20 .. (DrawLevels-1)/20
DrawLevels == 20
\* one-stage lines: largest processing / setup / maintenance time (ticks)
MaxStageTime == 4
\* one-stage lines: largest shift duration (hours)
MaxLineDuration == 10
\* one-stage lines: largest backlog
MaxBacklog == 3

(***************************************************************************)
(* Program constants.                                                      *)
(***************************************************************************)
\* for (int i = 0; i < 100; ++i) pushes one ProductA and one ProductB
BacklogPairs == 100

Products == {"ProductA", "ProductB"}

\* One Machine as its constructor arguments (times in ticks, probability in
\* twentieths).
Stage(n, pA, pB, sA, sB, bp, mt) ==
    [name |-> n,
     processTimes |-> [p \in Products |-> IF p = "ProductA" THEN pA ELSE pB],
     setupTimes |-> [p \in Products |-> IF p = "ProductA" THEN sA ELSE sB],
     breakdownProbability |-> bp,
     maintenanceTime |-> mt]

\* The five machines of ManufacturingSystem, in pipeline order.
ProgramLine ==
    << Stage("Raw Material Handler", 4, 6, 2, 3, 2, 2),
       Stage("Machining", 6, 8, 2, 4, 2, 3),
       Stage("Assembly", 8, 10, 3, 5, 2, 4),
       Stage("Quality Control", 2, 3, 1, 2, 1, 1),
       Stage("Packaging", 4, 5, 1, 2, 1, 1) >>

RECURSIVE Alternating(_)
\* The backlog the constructor builds: n times ProductA, ProductB.
Alternating(n) ==
    IF n = 0 THEN << >> ELSE <<"ProductA", "ProductB">> \o Alternating(n - 1)

ProgramBacklog == Alternating(BacklogPairs)

\* shiftDuration is an int number of hours added to a time in hours.
HoursToTicks(h) == 2 * h

VARIABLES
    line,               \* the machines, in pipeline order (fixed at construction)
    shiftDuration,      \* ManufacturingSystem::shiftDuration (hours)
    shiftCount,         \* ManufacturingSystem::shiftCount
    currentTime,        \* Simulation::currentTime (ticks)
    eventQueue,         \* Simulation::eventQueue: pending events, in insertion order
    isBusy,             \* Machine::isBusy of each machine
    productsCompleted,  \* ManufacturingSystem::productsCompleted
    currentShift,       \* ManufacturingSystem::currentShift
    shiftEndTime,       \* ManufacturingSystem::shiftEndTime (ticks)
    productQueue,       \* ManufacturingSystem::productQueue
    backlogSize,        \* history: the size the constructor gave productQueue
    out,                \* the lines written to std::cout, as records
    pc,                 \* "constructed", "running" (inside Simulation::run), "returned"
    nextId,             \* history: number of scheduleEvent calls so far
    popped              \* history: the events Simulation::run has executed

vars == << line, shiftDuration, shiftCount, currentTime, eventQueue, isBusy,
           productsCompleted, currentShift, shiftEndTime, productQueue,
           backlogSize, out, pc, nextId, popped >>

Stages == 1 .. Len(line)

(***************************************************************************)
(* The mutable program state as one record, threaded through the calls an  *)
(* event's action makes.                                                   *)
(***************************************************************************)
Cur ==
    [currentTime |-> currentTime, eventQueue |-> eventQueue, isBusy |-> isBusy,
     productsCompleted |-> productsCompleted, currentShift |-> currentShift,
     shiftEndTime |-> shiftEndTime, productQueue |-> productQueue,
     out |-> out, nextId |-> nextId]

Commit(s) ==
    /\ currentTime' = s.currentTime
    /\ eventQueue' = s.eventQueue
    /\ isBusy' = s.isBusy
    /\ productsCompleted' = s.productsCompleted
    /\ currentShift' = s.currentShift
    /\ shiftEndTime' = s.shiftEndTime
    /\ productQueue' = s.productQueue
    /\ out' = s.out
    /\ nextId' = s.nextId

\* One line of output.  stage is 0 and product "-" where the line names none;
\* n is the shift number or the products completed.
Line(kind, stage, product, time, n) ==
    [kind |-> kind, stage |-> stage, product |-> product, time |-> time, n |-> n]

Emit(s, l) == [s EXCEPT !.out = Append(@, l)]

(***************************************************************************)
(* Event and Simulation.                                                   *)
(***************************************************************************)
\* An Event: its time and its action, the action as a tag with what the
\* lambda captures.  id (the insertion number) and, on a completion, deadline
\* (the deadline the unit was accepted with) are history: no action reads
\* them.
Event(time, kind, stage, product, deadline, id) ==
    [time |-> time, kind |-> kind, stage |-> stage, product |-> product,
     deadline |-> deadline, id |-> id]

\* Simulation::scheduleEvent: eventQueue.push(Event(time, action)).
scheduleEvent(s, time, kind, stage, product, deadline) ==
    [s EXCEPT !.eventQueue = Append(@, Event(time, kind, stage, product, deadline, s.nextId)),
              !.nextId = @ + 1]

\* Event::operator> : events are ordered by time alone.
EventGreater(a, b) == a.time > b.time

\* The positions eventQueue.top() may return: std::priority_queue with
\* std::greater<Event> yields an event no other event is less than; which of
\* several events of equal time it yields is left to the library's heap.
TopChoices(q) ==
    {i \in DOMAIN q : \A j \in DOMAIN q : ~EventGreater(q[i], q[j])}

RemoveAt(q, i) == SubSeq(q, 1, i - 1) \o SubSeq(q, i + 1, Len(q))

\* Simulation::run, one iteration up to the call of the action:
\* top(), pop(), currentTime = nextEvent.time.
Pop(s, i) ==
    [s EXCEPT !.eventQueue = RemoveAt(@, i), !.currentTime = s.eventQueue[i].time]

\* History entry of a popped event: the event, the time before it, and the
\* number of events of the same time that were inserted before it and were
\* still pending.
PoppedEntry(q, i, before) ==
    [event |-> q[i], before |-> before,
     overtaken |-> Cardinality({j \in DOMAIN q : q[j].time = q[i].time /\ q[j].id < q[i].id})]

(***************************************************************************)
(* Machine.                                                                *)
(***************************************************************************)
\* Mutant: the busy test left out.
Rejects_DeadlineOnly(s, m, productType, deadline) ==
    s.currentTime + line[m].processTimes[productType] > deadline

\* Mutant: >= for > in the deadline test.
Rejects_AtDeadline(s, m, productType, deadline) ==
    s.isBusy[m] \/ s.currentTime + line[m].processTimes[productType] >= deadline

\* The test that opens Machine::startProcessing.
Rejects(s, m, productType, deadline) ==
    s.isBusy[m] \/ s.currentTime + line[m].processTimes[productType] > deadline

\* distribution(generator) < breakdownProbability, for the value the engine
\* yields (the engine is std::default_random_engine, whose type and so whose
\* sequence depends on the library: any value of [0,1) may come).
BreaksDown(m, draw) == draw < line[m].breakdownProbability

\* The time of the retry event after a breakdown.
RetryTime(s, m) == s.currentTime + line[m].maintenanceTime

\* Mutant: the duration taken for the time of the event.
CompletionTime_Absolute(s, m, productType) ==
    line[m].processTimes[productType] + line[m].setupTimes[productType]

\* Mutant: the setup time left out.
CompletionTime_NoSetup(s, m, productType) ==
    s.currentTime + line[m].processTimes[productType]

\* The time of the completion event: current time + processing + setup.
CompletionTime(s, m, productType) ==
    s.currentTime + (line[m].processTimes[productType] + line[m].setupTimes[productType])

\* Mutant: a rejected call marks the machine busy all the same.
startProcessing_BusyOnReject(s, m, productType, deadline, draw) ==
    IF Rejects(s, m, productType, deadline) THEN [s EXCEPT !.isBusy[m] = TRUE]
    ELSE LET s1 == Emit([s EXCEPT !.isBusy[m] = TRUE],
                        Line("started", m, productType, s.currentTime, 0))
         IN  IF BreaksDown(m, draw)
             THEN scheduleEvent(Emit(s1, Line("brokeDown", m, "-", s.currentTime, 0)),
                                RetryTime(s, m), "retry", m, productType, deadline)
             ELSE scheduleEvent(s1, CompletionTime(s, m, productType),
                                "complete", m, productType, deadline)

\* Machine::startProcessing(productType, shiftEndTime) of machine m, with the
\* value the random engine yields should it be asked.
startProcessing(s, m, productType, deadline, draw) ==
    IF Rejects(s, m, productType, deadline) THEN s
    ELSE LET s1 == Emit([s EXCEPT !.isBusy[m] = TRUE],
                        Line("started", m, productType, s.currentTime, 0))
         IN  IF BreaksDown(m, draw)
             THEN scheduleEvent(Emit(s1, Line("brokeDown", m, "-", s.currentTime, 0)),
                                RetryTime(s, m), "retry", m, productType, deadline)
             ELSE scheduleEvent(s1, CompletionTime(s, m, productType),
                                "complete", m, productType, deadline)

(***************************************************************************)
(* ManufacturingSystem.                                                    *)
(***************************************************************************)
\* Mutant: front() without pop().
startProduction_NoPop(s, draw) ==
    IF s.productQueue # << >>
    THEN startProcessing(s, 1, Head(s.productQueue), s.shiftEndTime, draw)
    ELSE s

\* Mutant: a unit the first machine rejects goes back to the backlog's end.
startProduction_Requeue(s, draw) ==
    IF s.productQueue # << >>
    THEN IF Rejects(s, 1, Head(s.productQueue), s.shiftEndTime)
         THEN [s EXCEPT !.productQueue = Append(Tail(@), Head(@))]
         ELSE startProcessing([s EXCEPT !.productQueue = Tail(@)], 1,
                              Head(s.productQueue), s.shiftEndTime, draw)
    ELSE s

\* ManufacturingSystem::startProduction
startProduction(s, draw) ==
    IF s.productQueue # << >>
    THEN startProcessing([s EXCEPT !.productQueue = Tail(@)], 1,
                         Head(s.productQueue), s.shiftEndTime, draw)
    ELSE s

\* ManufacturingSystem::printResults
printResults(s) == Emit(s, Line("results", 0, "-", s.currentTime, s.productsCompleted))

\* Mutant: <= for < in the test against the shift's end.
finishProduct_AtShiftEnd(s, productType, draw) ==
    LET s1 == Emit([s EXCEPT !.productsCompleted = @ + 1],
                   Line("productFinished", 0, productType, s.currentTime, 0))
    IN  IF s1.currentTime <= s1.shiftEndTime THEN startProduction(s1, draw) ELSE s1

\* ManufacturingSystem::finishProduct
finishProduct(s, productType, draw) ==
    LET s1 == Emit([s EXCEPT !.productsCompleted = @ + 1],
                   Line("productFinished", 0, productType, s.currentTime, 0))
    IN  IF s1.currentTime < s1.shiftEndTime THEN startProduction(s1, draw) ELSE s1

\* The onProcessComplete each machine is constructed with: startMachining,
\* startAssembly, startQualityControl, startPackaging hand the unit to the
\* next machine with the shift end time of the moment; the last machine's is
\* finishProduct.
onProcessComplete(s, m, productType, draw) ==
    IF m < Len(line)
    THEN startProcessing(s, m + 1, productType, s.shiftEndTime, draw)
    ELSE finishProduct(s, productType, draw)

\* The completion lambda of Machine::startProcessing.
completion(s, m, productType, draw) ==
    onProcessComplete(Emit([s EXCEPT !.isBusy[m] = FALSE],
                           Line("finished", m, productType, s.currentTime, 0)),
                      m, productType, draw)

\* Mutant: the endShift event is not scheduled.
startShift_NoEndEvent(s, draw) ==
    LET s1 == [s EXCEPT !.currentShift = @ + 1,
                        !.shiftEndTime = s.currentTime + HoursToTicks(shiftDuration)]
        s2 == Emit(s1, Line("shiftStarted", 0, "-", s1.currentTime, s1.currentShift))
    IN  startProduction(s2, draw)

\* ManufacturingSystem::startShift
startShift(s, draw) ==
    LET s1 == [s EXCEPT !.currentShift = @ + 1,
                        !.shiftEndTime = s.currentTime + HoursToTicks(shiftDuration)]
        s2 == Emit(s1, Line("shiftStarted", 0, "-", s1.currentTime, s1.currentShift))
        s3 == scheduleEvent(s2, s2.shiftEndTime, "endShift", 0, "-", 0)
    IN  startProduction(s3, draw)

\* Mutant: <= for < in the test for a further shift.
endShift_ExtraShift(s) ==
    LET s1 == Emit(s, Line("shiftEnded", 0, "-", s.currentTime, s.currentShift))
    IN  IF s1.currentShift <= shiftCount
        THEN scheduleEvent(s1, s1.currentTime, "startShift", 0, "-", 0)
        ELSE printResults(s1)

\* Mutant: the next shift starts one tick after the shift's end.
endShift_Gap(s) ==
    LET s1 == Emit(s, Line("shiftEnded", 0, "-", s.currentTime, s.currentShift))
    IN  IF s1.currentShift < shiftCount
        THEN scheduleEvent(s1, s1.currentTime + 1, "startShift", 0, "-", 0)
        ELSE printResults(s1)

\* ManufacturingSystem::endShift
endShift(s) ==
    LET s1 == Emit(s, Line("shiftEnded", 0, "-", s.currentTime, s.currentShift))
    IN  IF s1.currentShift < shiftCount
        THEN scheduleEvent(s1, s1.currentTime, "startShift", 0, "-", 0)
        ELSE printResults(s1)

(***************************************************************************)
(* Initial states: after main has read the two integers and constructed    *)
(* the ManufacturingSystem.                                                *)
(***************************************************************************)
Draws == 0 .. (DrawLevels - 1)

Constructed(l, backlog) ==
    /\ line = l
    /\ currentTime = 0
    /\ eventQueue = << >>
    /\ isBusy = [m \in 1 .. Len(l) |-> FALSE]
    /\ productsCompleted = 0
    /\ currentShift = 0
    /\ shiftEndTime = 0
    /\ productQueue = backlog
    /\ backlogSize = Len(backlog)
    /\ out = << >>
    /\ pc = "constructed"
    /\ nextId = 0
    /\ popped = << >>

Init ==
    /\ shiftDuration \in (0 - 1) .. MaxShiftDuration
    /\ shiftCount \in 0 .. MaxShiftCount
    /\ Constructed(ProgramLine, ProgramBacklog)

\* A line of one machine whose onProcessComplete is finishProduct, one shift,
\* a backlog of n units of ProductA: the Machine and Simulation classes and
\* the ManufacturingSystem methods, constructed with other arguments.  The
\* machine either never breaks down (probability 0) or does with probability
\* 0.1, maintenance taking one tick.
InitLine ==
    /\ shiftDuration \in 1 .. MaxLineDuration
    /\ shiftCount = 1
    /\ \E P \in 0 .. MaxStageTime, S \in 0 .. MaxStageTime, bp \in {0, 2}, n \in 0 .. MaxBacklog :
           Constructed(<< Stage("Stage", P, P, S, S, bp, 1) >>, [k \in 1 .. n |-> "ProductA"])

(***************************************************************************)
(* Actions.                                                                *)
(***************************************************************************)
Fixed == UNCHANGED << line, shiftDuration, shiftCount, backlogSize >>

\* ManufacturingSystem::run up to the call of simulation.run().
Run ==
    /\ pc = "constructed"
    /\ Commit(scheduleEvent(Cur, 0, "startShift", 0, "-", 0))
    /\ pc' = "running"
    /\ UNCHANGED popped
    /\ Fixed

\* What every iteration of the loop of Simulation::run does with position i.
Execute(i, s) ==
    /\ pc = "running"
    /\ Commit(s)
    /\ popped' = Append(popped, PoppedEntry(eventQueue, i, currentTime))
    /\ UNCHANGED pc
    /\ Fixed

\* An iteration of Simulation::run whose event is a startShift.
ExecStartShift ==
    \E i \in TopChoices(eventQueue) : \E draw \in Draws :
        /\ eventQueue[i].kind = "startShift"
        /\ Execute(i, startShift(Pop(Cur, i), draw))

\* An iteration of Simulation::run whose event is an endShift.
ExecEndShift ==
    \E i \in TopChoices(eventQueue) :
        /\ eventQueue[i].kind = "endShift"
        /\ Execute(i, endShift(Pop(Cur, i)))

\* An iteration whose event is the retry scheduled after a breakdown.
ExecRetry ==
    \E i \in TopChoices(eventQueue) : \E draw \in Draws :
        /\ eventQueue[i].kind = "retry"
        /\ Execute(i, startProcessing(Pop(Cur, i), eventQueue[i].stage,
                                      eventQueue[i].product, eventQueue[i].deadline, draw))

\* An iteration whose event is a machine's completion.
ExecComplete ==
    \E i \in TopChoices(eventQueue) : \E draw \in Draws :
        /\ eventQueue[i].kind = "complete"
        /\ Execute(i, completion(Pop(Cur, i), eventQueue[i].stage,
                                 eventQueue[i].product, draw))

\* Simulation::run leaves its loop on an empty queue; run returns.
Return ==
    /\ pc = "running"
    /\ eventQueue = << >>
    /\ pc' = "returned"
    /\ UNCHANGED << currentTime, eventQueue, isBusy, productsCompleted, currentShift,
                    shiftEndTime, productQueue, out, nextId, popped >>
    /\ Fixed

Next == Run \/ ExecStartShift \/ ExecEndShift \/ ExecRetry \/ ExecComplete \/ Return

Spec == Init /\ [][Next]_vars

\* Simulation::run keeps iterating while the queue is not empty.
FairSpec == Spec /\ WF_vars(Next)

\* The one-machine lines.
SpecLine == InitLine /\ [][Next]_vars

\* The one-machine lines, the loop of Simulation::run running on.
FairSpecLine == SpecLine /\ WF_vars(Next)

(***************************************************************************)
(* Properties.                                                             *)
(***************************************************************************)
Last(q) == q[Len(q)]

\* The input the claims about a run assume: both integers positive.
PositiveInput == shiftDuration > 0 /\ shiftCount > 0

\* The pending completion and retry events of machine m.
PendingOf(m) ==
    {i \in DOMAIN eventQueue :
        eventQueue[i].stage = m /\ eventQueue[i].kind \in {"complete", "retry"}}

\* C1: with a positive shift duration and shift count the scheduler's time
\* never decreases: every executed event has a time at or after the time
\* before it, and no pending event has a time before the current time.
C1_TimeNeverDecreases ==
    PositiveInput =>
        /\ \A k \in DOMAIN popped : popped[k].event.time >= popped[k].before
        /\ \A i \in DOMAIN eventQueue : eventQueue[i].time >= currentTime

\* A finished run on positive input in which a retry and a completion have
\* both fired and time has advanced.
C1_Witness ==
    /\ PositiveInput
    /\ pc = "returned"
    /\ \E j, k \in DOMAIN popped :
          /\ popped[j].event.kind = "retry"
          /\ popped[k].event.kind = "complete"
          /\ popped[k].event.time > popped[k].before

\* C2: events of one timestamp are executed in the order of their
\* scheduleEvent calls: no executed event had, when it was popped, a pending
\* event of the same time that was inserted before it.
C2_FifoAmongEqualTimes ==
    \A k \in DOMAIN popped : popped[k].overtaken = 0

\* C3: a retry that fires at a time from which the unit can still be
\* processed before the deadline re-enters the decision: the machine then
\* schedules a completion or another retry for the same unit.
C3_RetryReentersDecision ==
    popped # << >> =>
        LET e == Last(popped).event
        IN  (e.kind = "retry"
             /\ e.time + line[e.stage].processTimes[e.product] <= e.deadline)
            => \E i \in DOMAIN eventQueue :
                  /\ eventQueue[i].id = nextId - 1
                  /\ eventQueue[i].id > e.id
                  /\ eventQueue[i].kind \in {"complete", "retry"}
                  /\ eventQueue[i].stage = e.stage
                  /\ eventQueue[i].product = e.product

\* C4: a machine that became busy is idle again before the run ends: when
\* run has returned every machine is available.
C4_IdleAgainBeforeReturn ==
    pc = "returned" => \A m \in Stages : ~isBusy[m]

\* C5: no machine carries work across a shift boundary: every completion
\* fires at or before the deadline its unit was accepted with.
C5_CompletionWithinDeadline ==
    \A k \in DOMAIN popped :
        popped[k].event.kind = "complete"
            => popped[k].event.time <= popped[k].event.deadline

\* Every machine has at most one pending completion or retry event, and a
\* machine with a pending event is busy.
OnePendingEvent ==
    \A m \in Stages :
        /\ Cardinality(PendingOf(m)) <= 1
        /\ PendingOf(m) # {} => isBusy[m]

\* The "started" lines of machine m: the units it has accepted.
AcceptedBy(m, o) == Cardinality({k \in DOMAIN o : o[k].kind = "started" /\ o[k].stage = m})

\* C6: single occupancy: every machine has at most one pending completion
\* or retry event in the queue, and a machine that is busy accepts no
\* second unit.  (On the program's line no event both frees a machine and
\* offers it a unit: a completion offers the unit to the next machine, the
\* last machine's to the first; so "busy" is read before the event.)
C6_SingleOccupancy ==
    /\ []OnePendingEvent
    /\ [][\A m \in Stages : isBusy[m] => AcceptedBy(m, out') = AcceptedBy(m, out)]_vars

\* The product the backlog's last removed unit had (the backlog alternates).
RemovedProduct == IF Head(productQueue) = "ProductA" THEN "ProductB" ELSE "ProductA"

\* A shift start has just offered a unit to the first machine while it was
\* processing another one: the unit met the deadline and yet was not
\* accepted, and the machine's one event is still pending.
C6_Witness ==
    /\ popped # << >>
    /\ Last(popped).event.kind = "startShift"
    /\ Last(out).kind = "shiftStarted"
    /\ productQueue # << >>
    /\ Len(productQueue) < backlogSize
    /\ currentTime + line[1].processTimes[RemovedProduct] <= shiftEndTime
    /\ isBusy[1]
    /\ Cardinality(PendingOf(1)) = 1

IsFirstStageStart(l) == l.kind = "started" /\ l.stage = 1

\* The units the first machine has accepted.
AcceptedByFirst == Len(SelectSeq(out, IsFirstStageStart))

\* The units removed from the backlog.
RemovedFromBacklog == backlogSize - Len(productQueue)

\* C7: conservation with bounded loss: completed <= accepted by the first
\* machine <= removed from the backlog <= original backlog size.
C7_Conservation ==
    /\ productsCompleted <= AcceptedByFirst
    /\ AcceptedByFirst <= RemovedFromBacklog
    /\ RemovedFromBacklog <= backlogSize

\* A unit has been completed, one accepted unit has not, and one removed
\* unit was never accepted.
C7_Witness ==
    /\ productsCompleted >= 1
    /\ productsCompleted < AcceptedByFirst
    /\ AcceptedByFirst < RemovedFromBacklog

IsShiftLine(l) == l.kind \in {"shiftStarted", "shiftEnded"}

\* The shift start and shift end lines written so far.
ShiftLines == SelectSeq(out, IsShiftLine)

\* Shifts start and end in turn, numbered 1, 2, ..; currentShift is the
\* number of shifts started and stays within shiftCount; once run has
\* returned, every shift 1 .. shiftCount has started and ended.
ShiftsInOrder ==
    shiftCount >= 1 =>
        /\ \A k \in DOMAIN ShiftLines :
              /\ ShiftLines[k].kind = (IF k % 2 = 1 THEN "shiftStarted" ELSE "shiftEnded")
              /\ ShiftLines[k].n = (k + 1) \div 2
        /\ currentShift = (Len(ShiftLines) + 1) \div 2
        /\ currentShift <= shiftCount
        /\ pc = "returned" =>
              (currentShift = shiftCount /\ Len(ShiftLines) = 2 * shiftCount)

\* C8: shift monotonicity: current_shift changes only by growing by one,
\* never exceeds shift_count, equals shift_count when the run ends, and
\* shifts 1 .. shift_count are each started once and ended once, in order.
C8_ShiftMonotonicity ==
    /\ []ShiftsInOrder
    /\ [][shiftCount >= 1 =>
            (currentShift' = currentShift \/ currentShift' = currentShift + 1)]_vars

\* A finished run of three shifts.
C8_Witness ==
    /\ pc = "returned"
    /\ shiftCount = 3
    /\ currentShift = 3
    /\ Len(ShiftLines) = 6

\* The final shift has ended: the last shift line is the end of shift
\* shiftCount and the results have been printed.
FinalShiftEnded ==
    /\ currentShift = shiftCount
    /\ ShiftLines # << >>
    /\ Last(ShiftLines) = Line("shiftEnded", 0, "-", Last(ShiftLines).time, shiftCount)
    /\ \E k \in DOMAIN out : out[k].kind = "results"

\* C9: termination: for positive input and every outcome of the draws the
\* run reaches an empty event queue and returns, the final shift having
\* ended and no event pending.
C9_Termination ==
    PositiveInput => <>[](pc = "returned" /\ eventQueue = << >> /\ FinalShiftEnded)

\* A run on positive input has returned after an event that fired later than
\* the end of the final shift.
C9_Witness ==
    /\ PositiveInput
    /\ pc = "returned"
    /\ eventQueue = << >>
    /\ FinalShiftEnded
    /\ Last(popped).event.kind = "complete"
    /\ currentTime > shiftEndTime

(***************************************************************************)
(* One-machine lines (SpecLine).                                           *)
(***************************************************************************)
\* P and S of the machine, in ticks, and D in ticks.
StageP == line[1].processTimes["ProductA"]
StageS == line[1].setupTimes["ProductA"]
ShiftTicks == HoursToTicks(shiftDuration)

OneStageNoBreakdown ==
    Len(line) = 1 /\ line[1].breakdownProbability = 0 /\ shiftCount = 1

\* Unit k is one the claim counts: (k-1)*(P+S)+P <= D.
Counted(k) == (k - 1) * (StageP + StageS) + StageP <= ShiftTicks

CountedUnits == {k \in 1 .. backlogSize : Counted(k)}

IsProductFinished(l) == l.kind = "productFinished"

\* The "finished" lines of finishProduct, in order.
FinishedLines == SelectSeq(out, IsProductFinished)

\* Once run has returned, the k-th unit has completed at k*(P+S), for every
\* counted k.
CompletionTimes ==
    pc = "returned" =>
        \A k \in CountedUnits :
            k <= Len(FinishedLines) /\ FinishedLines[k].time = k * (StageP + StageS)

\* The instance P=2, S=0, D=10, N=3: units complete at 2, 4, 6, three are
\* completed, the shift ends at 10 and no event is left pending then.
Instance ==
    (StageP = 4 /\ StageS = 0 /\ shiftDuration = 10 /\ backlogSize = 3
     /\ popped # << >> /\ Last(popped).event.kind = "endShift")
        => /\ Len(FinishedLines) = 3
           /\ \A k \in 1 .. 3 : FinishedLines[k].time = 4 * k
           /\ productsCompleted = 3
           /\ currentTime = 20
           /\ eventQueue = << >>

\* C10 as stated: on a one-machine line without breakdowns the k-th unit
\* completes at k*(P+S) for every counted k, completed_count at shift end
\* is the number of counted k, and the instance behaves as described.
C10_SteadyThroughputAtShiftEnd ==
    OneStageNoBreakdown =>
        /\ CompletionTimes
        /\ (popped # << >> /\ Last(popped).event.kind = "endShift")
              => productsCompleted = Cardinality(CountedUnits)
        /\ Instance

\* C10 amended: for P > 0 the k-th unit completes at k*(P+S) for every
\* counted k, completed_count when the run has returned is the number of
\* counted k, and the instance behaves as described.
C10_SteadyThroughput ==
    (OneStageNoBreakdown /\ StageP > 0) =>
        /\ CompletionTimes
        /\ pc = "returned" =>
              (productsCompleted = Cardinality(CountedUnits)
               /\ Len(FinishedLines) = Cardinality(CountedUnits))
        /\ Instance

\* The instance has run to its end: three units done, the shift end the
\* last event.
C10_Witness ==
    /\ OneStageNoBreakdown
    /\ StageP = 4 /\ StageS = 0 /\ shiftDuration = 10 /\ backlogSize = 3
    /\ pc = "returned"
    /\ productsCompleted = 3
    /\ Last(popped).event.kind = "endShift"

\* A step in which a unit leaves the backlog: startProduction offers it to
\* the first machine.
AdmitAttempt == Len(productQueue') < Len(productQueue)

\* On a one-machine line without breakdowns an offered unit is turned away
\* exactly if it cannot be processed by the shift end; at most one unit is
\* ever turned away; what was accepted, and nothing else, is completed once
\* run has returned; and in the instance P=2, S=0, D=5, backlog [A,A,A] two
\* units complete, at 2 and 4, and the third is removed and not accepted.
DropInvariant ==
    OneStageNoBreakdown =>
        /\ RemovedFromBacklog - AcceptedByFirst \in {0, 1}
        /\ productsCompleted <= AcceptedByFirst
        /\ RemovedFromBacklog > AcceptedByFirst => currentTime + StageP > ShiftTicks
        /\ pc = "returned" => productsCompleted = AcceptedByFirst
        /\ (pc = "returned" /\ StageP = 4 /\ StageS = 0 /\ shiftDuration = 5 /\ backlogSize = 3)
              => /\ Len(FinishedLines) = 2
                 /\ FinishedLines[1].time = 4 /\ FinishedLines[2].time = 8
                 /\ productsCompleted = 2
                 /\ RemovedFromBacklog = 3
                 /\ AcceptedByFirst = 2

\* C11: drop at the shift boundary on a one-machine line without
\* breakdowns: a unit offered at time t with t + P > shift end is rejected,
\* it has left the backlog and never completes, and the run still returns;
\* the instance P=2, S=0, D=5, [A,A,A] completes two units, at 2 and 4, and
\* rejects the third at 4.
C11_DropAtShiftBoundary ==
    /\ []DropInvariant
    /\ [][(OneStageNoBreakdown /\ AdmitAttempt) =>
            /\ (currentTime' + StageP > shiftEndTime')
                  <=> (AcceptedBy(1, out') = AcceptedBy(1, out))
            /\ AcceptedBy(1, out') = AcceptedBy(1, out)
                  => ~\E i \in DOMAIN eventQueue' :
                        eventQueue'[i].id >= nextId /\ eventQueue'[i].stage = 1]_vars
    /\ OneStageNoBreakdown => <>(pc = "returned")

\* The instance has returned: two units completed, the third dropped at 4.
C11_Witness ==
    /\ OneStageNoBreakdown
    /\ StageP = 4 /\ StageS = 0 /\ shiftDuration = 5 /\ backlogSize = 3
    /\ pc = "returned"
    /\ productsCompleted = 2
    /\ productQueue = << >>
    /\ RemovedFromBacklog - AcceptedByFirst = 1
    /\ Last(FinishedLines).time = 8

(***************************************************************************)
(* The run that pops events of equal time in insertion order and never     *)
(* breaks down, computed from the constructed program.                     *)
(***************************************************************************)
\* The action of event e, on the state s left by its pop.
Fire(s, e, draw) ==
    CASE e.kind = "startShift" -> startShift(s, draw)
      [] e.kind = "endShift" -> endShift(s)
      [] e.kind = "retry" -> startProcessing(s, e.stage, e.product, e.deadline, draw)
      [] e.kind = "complete" -> completion(s, e.stage, e.product, draw)

\* The earliest inserted of the events top() may return.
FifoTop(q) == CHOOSE i \in TopChoices(q) : \A j \in TopChoices(q) : q[i].id <= q[j].id

\* A draw no machine breaks down on.
NoBreakdownDraw == DrawLevels - 1

RECURSIVE RunFifo(_)
\* Simulation::run to the empty queue.
RunFifo(s) ==
    IF s.eventQueue = << >> THEN s
    ELSE LET i == FifoTop(s.eventQueue)
         IN  RunFifo(Fire(Pop(s, i), s.eventQueue[i], NoBreakdownDraw))

\* The program as constructed, run() having scheduled the first shift.
ProgramStarted ==
    scheduleEvent([currentTime |-> 0, eventQueue |-> << >>,
                   isBusy |-> [m \in Stages |-> FALSE], productsCompleted |-> 0,
                   currentShift |-> 0, shiftEndTime |-> 0,
                   productQueue |-> ProgramBacklog, out |-> << >>, nextId |-> 0],
                  0, "startShift", 0, "-", 0)

FifoResult == RunFifo(ProgramStarted)

IsBreakdown(l) == l.kind = "brokeDown"

\* No machine has broken down in the run so far.
NoBreakdownSoFar == SelectSeq(out, IsBreakdown) = << >>

\* C12: determinism without breakdowns: whatever order the scheduler picks
\* among events of one timestamp, every run without a breakdown ends with
\* the same completed count and the same simulated time (those of the run
\* that picks in insertion order, which is one of them).
C12_SameResultWhateverOrder ==
    (pc = "returned" /\ NoBreakdownSoFar) =>
        /\ productsCompleted = FifoResult.productsCompleted
        /\ currentTime = FifoResult.currentTime

\* C13: backpressure: whenever a shift start or a finished product takes a
\* unit from the backlog for the first machine, and whenever a machine's
\* completion forwards its unit to the next machine, the receiving machine
\* is idle; no unit is rejected because its target machine is busy.
C13_Backpressure ==
    [][Len(popped') > Len(popped) =>
          LET e == Last(popped').event
          IN  /\ Len(productQueue') < Len(productQueue) => ~isBusy[1]
              /\ (e.kind = "complete" /\ e.stage < Len(line)) => ~isBusy[e.stage + 1]]_vars

\* C14: the total the final report prints equals productsCompleted when the
\* run terminates: once the report is printed no finishProduct increments
\* productsCompleted, so the printed total stays equal to it and no
\* "finished" line of a product follows the report.
C14_ReportEqualsFinalCount ==
    \A k \in DOMAIN out :
        out[k].kind = "results" =>
            /\ out[k].n = productsCompleted
            /\ \A j \in k + 1 .. Len(out) : out[j].kind # "productFinished"

\* C15: shifts run back to back: for shift duration D, shift k starts at
\* time (k-1)*D and its end fires at k*D, and with at least one shift asked
\* for the final report is printed at shiftCount*D; when run has returned
\* every shift 1 .. shiftCount has started and ended.
C15_ShiftsBackToBack ==
    /\ \A k \in DOMAIN out :
          /\ out[k].kind = "shiftStarted"
                => out[k].time = HoursToTicks((out[k].n - 1) * shiftDuration)
          /\ out[k].kind = "shiftEnded"
                => out[k].time = HoursToTicks(out[k].n * shiftDuration)
          /\ (out[k].kind = "results" /\ shiftCount >= 1)
                => out[k].time = HoursToTicks(shiftCount * shiftDuration)
    /\ pc = "returned" =>
          \A n \in 1 .. shiftCount :
              \E j, k \in DOMAIN out :
                  /\ j < k
                  /\ out[j].kind = "shiftStarted" /\ out[j].n = n
                  /\ out[k].kind = "shiftEnded" /\ out[k].n = n

\* A run of three shifts of positive duration has returned: the third shift
\* started at 2*D and the report was printed at 3*D.
C15_Witness ==
    /\ pc = "returned"
    /\ shiftCount = 3
    /\ shiftDuration > 0
    /\ \E j, k \in DOMAIN out :
          /\ out[j].kind = "shiftStarted" /\ out[j].n = 3
          /\ out[j].time = HoursToTicks(2 * shiftDuration)
          /\ out[k].kind = "results"
          /\ out[k].time = HoursToTicks(3 * shiftDuration)

\* The backlog after startProduction: one unit less when there was one.
AfterPull == IF productQueue # << >> THEN Tail(productQueue) ELSE productQueue

\* C16: every completion of the last machine increments productsCompleted
\* by exactly 1, and it removes exactly one unit from the backlog and offers
\* it to the first machine (which takes it when it is idle and the unit
\* meets the deadline) if and only if the time is before the shift's end
\* and the backlog is non-empty; otherwise the backlog is unchanged.  Units
\* leave the backlog only through startShift and finishProduct, one per
\* event at most; no other event changes the backlog or the count.
C16_FinishProductEffect ==
    [][IF Len(popped') > Len(popped)
       THEN LET e == Last(popped').event
                pull == currentTime' < shiftEndTime /\ productQueue # << >>
            IN  IF e.kind = "complete" /\ e.stage = Len(line)
                THEN /\ productsCompleted' = productsCompleted + 1
                     /\ productQueue' = IF pull THEN Tail(productQueue) ELSE productQueue
                     /\ ~pull => AcceptedBy(1, out') = AcceptedBy(1, out)
                     /\ (/\ pull
                         /\ ~isBusy[1] \/ e.stage = 1
                         /\ currentTime' + line[1].processTimes[Head(productQueue)] <= shiftEndTime)
                           => /\ AcceptedBy(1, out') = AcceptedBy(1, out) + 1
                              /\ \E k \in DOMAIN out' :
                                    /\ k > Len(out)
                                    /\ out'[k].kind = "started"
                                    /\ out'[k].product = Head(productQueue)
                ELSE /\ productsCompleted' = productsCompleted
                     /\ productQueue' = IF e.kind = "startShift" THEN AfterPull ELSE productQueue
       ELSE productQueue' = productQueue /\ productsCompleted' = productsCompleted]_vars

\* The last machine's completion, before the shift's end, has just counted
\* a product and handed the backlog's next unit to the first machine.
C16_Witness ==
    /\ Len(out) >= 2
    /\ popped # << >>
    /\ Last(popped).event.kind = "complete"
    /\ Last(popped).event.stage = Len(line)
    /\ currentTime < shiftEndTime
    /\ productsCompleted >= 1
    /\ out[Len(out) - 1].kind = "productFinished"
    /\ Last(out).kind = "started"
    /\ Last(out).stage = 1

\* The startProcessing call the event e makes in a step, if it makes one:
\* the machine called, the unit, the deadline passed and whether the
\* machine is busy when called (a completion has cleared its own machine's
\* flag before it calls).
Calls(e) ==
    IF e.kind = "retry"
    THEN {[m |-> e.stage, product |-> e.product, deadline |-> e.deadline,
           busy |-> isBusy[e.stage]]}
    ELSE IF e.kind = "complete" /\ e.stage < Len(line)
    THEN {[m |-> e.stage + 1, product |-> e.product, deadline |-> shiftEndTime,
           busy |-> isBusy[e.stage + 1]]}
    ELSE IF e.kind = "complete" /\ currentTime' < shiftEndTime /\ productQueue # << >>
    THEN {[m |-> 1, product |-> Head(productQueue), deadline |-> shiftEndTime,
           busy |-> isBusy[1] /\ e.stage # 1]}
    ELSE IF e.kind = "startShift" /\ productQueue # << >>
    THEN {[m |-> 1, product |-> Head(productQueue), deadline |-> shiftEndTime',
           busy |-> isBusy[1]]}
    ELSE {}

\* The events a step has scheduled for machine m, and the lines it has
\* written about machine m taking a unit.
ScheduledFor(m) ==
    {i \in DOMAIN eventQueue' : eventQueue'[i].id >= nextId /\ eventQueue'[i].stage = m}

NotifiedBy(m) ==
    {k \in DOMAIN out' : /\ k > Len(out)
                         /\ out'[k].stage = m
                         /\ out'[k].kind \in {"started", "brokeDown"}}

\* C17: a rejected accept is a no-op: a startProcessing call made while the
\* machine is busy, or with current time + processing time of the product
\* beyond the deadline, leaves the machine's busy flag as it is, schedules
\* no event, writes no line and leaves productsCompleted and currentShift to
\* what its caller alone does (a retry that is rejected changes nothing at
\* all); the call changes state (flag set, "started" written, one event
\* scheduled) only when the machine is idle and the unit meets the deadline.
C17_RejectedAcceptIsNoOp ==
    [][Len(popped') > Len(popped) =>
          LET e == Last(popped').event
          IN  \A c \in Calls(e) :
                IF c.busy \/ currentTime' + line[c.m].processTimes[c.product] > c.deadline
                THEN /\ isBusy'[c.m] = c.busy
                     /\ ScheduledFor(c.m) = {}
                     /\ NotifiedBy(c.m) = {}
                     /\ productsCompleted' = productsCompleted +
                            (IF e.kind = "complete" /\ e.stage = Len(line) THEN 1 ELSE 0)
                     /\ currentShift' = currentShift + (IF e.kind = "startShift" THEN 1 ELSE 0)
                     /\ e.kind = "retry" =>
                            /\ isBusy' = isBusy /\ out' = out /\ nextId' = nextId
                            /\ Len(eventQueue') = Len(eventQueue) - 1
                            /\ productQueue' = productQueue /\ shiftEndTime' = shiftEndTime
                ELSE /\ isBusy'[c.m]
                     /\ Cardinality(ScheduledFor(c.m)) = 1
                     /\ \E k \in NotifiedBy(c.m) :
                           out'[k].kind = "started" /\ out'[k].product = c.product]_vars

\* A completion has just offered its unit to the next machine, which
\* rejected it: the completion's "finished" line is the last line written,
\* nothing is scheduled for the next machine and a retry has been rejected
\* earlier in the run.
C17_Witness ==
    /\ popped # << >>
    /\ out # << >>
    /\ Last(popped).event.kind = "complete"
    /\ Last(popped).event.stage < Len(line)
    /\ Last(out).kind = "finished"
    /\ Last(out).stage = Last(popped).event.stage
    /\ PendingOf(Last(popped).event.stage + 1) = {}
    /\ \E k \in DOMAIN popped : popped[k].event.kind = "retry"

\* The "finished processing" lines of machine m: the units it has passed on.
FinishedBy(m) == Cardinality({k \in DOMAIN out : out[k].kind = "finished" /\ out[k].stage = m})

\* Every counted product was accepted and finished by every machine in
\* turn, and every unit the first machine accepted came off the backlog:
\* a unit some machine rejected is in none of the later counts.
CountedOnlyIfAccepted ==
    /\ AcceptedByFirst <= RemovedFromBacklog
    /\ \A m \in Stages :
          /\ FinishedBy(m) <= AcceptedBy(m, out)
          /\ m > 1 => AcceptedBy(m, out) <= FinishedBy(m - 1)
    /\ productsCompleted = Len(FinishedLines)
    /\ productsCompleted <= FinishedBy(Len(line))

IsSuffix(q, r) == \E n \in 0 .. Len(r) : q = SubSeq(r, n + 1, Len(r))

\* C18: the backlog never regrows and productsCompleted never decreases:
\* after every event the backlog is a suffix of the backlog before it, and
\* a unit a machine rejected is never put back into the backlog nor counted
\* as completed later (the count never exceeds what each machine accepted).
C18_BacklogNeverRegrows ==
    /\ []CountedOnlyIfAccepted
    /\ [][/\ IsSuffix(productQueue', productQueue)
          /\ productsCompleted' >= productsCompleted]_vars

\* A unit taken from the backlog was rejected by the first machine, and a
\* product has been completed and counted.
C18_Witness ==
    /\ RemovedFromBacklog > AcceptedByFirst
    /\ productsCompleted >= 1
    /\ Len(productQueue) < backlogSize - 2

\* C19: scheduling into the past is guarded by the scheduler: once the run
\* has started, scheduleEvent inserts no event whose time is below the
\* current time, so for any caller (any input) no pending event lies in the
\* past and the current time never moves backward.
C19_NoEventInThePast ==
    /\ \A i \in DOMAIN eventQueue : eventQueue[i].time >= currentTime
    /\ \A k \in DOMAIN popped : popped[k].before <= popped[k].event.time

====
